---- MODULE Spec2Model ----
(***************************************************************************)
(* A model of bf_instrumentator: the Brainfuck parser and its optimization *)
(* levels O0..O3 (src/src/parser.rs), the IR interpreter                   *)
(* (src/src/interpreter.rs), the test facade `run` (src/src/lib.rs) and    *)
(* the differential test `specific` (src/src/test.rs).                     *)
(*                                                                         *)
(* A source text is a sequence of one-character strings.  An IR node is a  *)
(* record with the fields of every variant of `enum IR`; the fields a      *)
(* variant does not have are 0 (or the empty sequence).                    *)
(***************************************************************************)
EXTENDS Integers, Sequences, FiniteSets

VARIABLES
    harness,        \* which entry point runs: "parse", "specific" or "run"
    pc,             \* position of the entry point
    bf,             \* the source text
    order,          \* iteration order of O2's HashMap: "asc" or "desc"
    inputs,         \* specific: the input stream; run: the current pair's input
    o,              \* o[l]: what optimize_o<l>(bf) returned
    optimizer,      \* the level of the interpreter that is (or was last) running
    program,        \* Interpreter.program
    memory,         \* Interpreter.memory
    pointer,        \* Interpreter.pointer
    iterations,     \* Interpreter.iterations
    max_iterations, \* Interpreter.max_iterations
    frames,         \* the activations of run_vec, outermost first
    iter,           \* what is left of the inputs iterator of the current run
    ret,            \* what the current run returned: (err, output)
    results,        \* specific: (e_l, r_l) and the end state of every finished run
    pairs,          \* run: the zipped (input, expected_output) pairs
    idx,            \* run: the number of pairs already handled
    errors          \* run: the TestFailure list

vars == <<harness, pc, bf, order, inputs, o, optimizer, program, memory, pointer,
          iterations, max_iterations, frames, iter, ret, results, pairs, idx, errors>>

(***************************************************************************)
(* Bounds of the model.                                                    *)
(***************************************************************************)
\* longest source of the parse specification, in characters
MaxSrcLen == 4
\* longest source of the run specifications, in tokens of Tokens
MaxTok == 3
\* cells of the tape (65536 in the program)
TapeLen == 4
\* longest input stream
MaxInputs == 2
\* the two iteration budgets of the run specifications
LowIterations == 2
HighIterations == 24
\* most (input, expected_output) pairs of one call of the facade
MaxPairs == 2
\* longest source of the optimizer specification, in tokens of OptimizerTokens
MaxOptTok == 4
\* the counter values of the lowering specification: 0..MaxCounter, and the
\* middle and the top of the byte
MaxCounter == 3

\* Wrapping<u8>
CellMod == 256

(***************************************************************************)
(* parser.rs: the IR                                                       *)
(***************************************************************************)
Add(x, offset) ==
    [op |-> "Add", x |-> x, y |-> 0, offset |-> offset, times |-> 0, over |-> 0,
     instructions |-> <<>>]

Move(over) ==
    [op |-> "Move", x |-> 0, y |-> 0, offset |-> 0, times |-> 0, over |-> over,
     instructions |-> <<>>]

PrintOp(times, offset) ==
    [op |-> "Print", x |-> 0, y |-> 0, offset |-> offset, times |-> times, over |-> 0,
     instructions |-> <<>>]

Read(offset) ==
    [op |-> "Read", x |-> 0, y |-> 0, offset |-> offset, times |-> 0, over |-> 0,
     instructions |-> <<>>]

Exact(x, offset) ==
    [op |-> "Exact", x |-> x, y |-> 0, offset |-> offset, times |-> 0, over |-> 0,
     instructions |-> <<>>]

Loop(over, instructions) ==
    [op |-> "Loop", x |-> 0, y |-> 0, offset |-> 0, times |-> 0, over |-> over,
     instructions |-> instructions]

Mul(x, y, offset) ==
    [op |-> "Mul", x |-> x, y |-> y, offset |-> offset, times |-> 0, over |-> 0,
     instructions |-> <<>>]

\* the characters `impl From<char> for IR` translates; it panics on any other
PrimitiveChars == {"+", "-", ">", "<", ".", ","}

FromChar(c) ==
    CASE c = "+" -> Add(1, 0)
      [] c = "-" -> Add(-1, 0)
      [] c = ">" -> Move(1)
      [] c = "<" -> Move(-1)
      [] c = "." -> PrintOp(1, 0)
      [] c = "," -> Read(0)

\* Result<Vec<IR>, OptimizerError>, and the panic of the call
Ok(ir) == [tag |-> "Ok", ir |-> ir]
Err == [tag |-> "UnbalancedBrackets", ir |-> <<>>]
Panic == [tag |-> "Panic", ir |-> <<>>]

Last(s) == s[Len(s)]
Front(s) == SubSeq(s, 1, Len(s) - 1)

RECURSIVE remove_zero_moves_and_adds(_)
\* the filter that forgets the moves
remove_zero_adds(v) ==
    IF v = <<>> THEN <<>>
    ELSE LET i == Head(v)
             rest == remove_zero_moves_and_adds(Tail(v))
         IN  IF i.op = "Add" /\ i.x = 0
             THEN rest
             ELSE IF i.op = "Loop"
                  THEN <<Loop(i.over, remove_zero_moves_and_adds(i.instructions))>> \o rest
                  ELSE <<i>> \o rest

remove_zero_moves_and_adds(v) ==
    IF v = <<>> THEN <<>>
    ELSE LET i == Head(v)
             rest == remove_zero_moves_and_adds(Tail(v))
         IN  IF (i.op = "Add" /\ i.x = 0) \/ (i.op = "Move" /\ i.over = 0)
             THEN rest
             ELSE IF i.op = "Loop"
                  THEN <<Loop(i.over, remove_zero_moves_and_adds(i.instructions))>> \o rest
                  ELSE <<i>> \o rest

\* the scopes parsed so far, and the return taken out of the `for`, if any
Parsing(instructions_stack) == [tag |-> "Ok", instructions_stack |-> instructions_stack]
Stopped(tag) == [tag |-> tag, instructions_stack |-> <<>>]

\* the body of the `for c in bf.chars()` of optimize_o0
O0Char(instructions_stack, c) ==
    IF c = "["
    THEN Parsing(Append(instructions_stack, <<>>))
    ELSE IF c = "]"
    THEN IF instructions_stack = <<>>
         THEN Stopped("UnbalancedBrackets")
         ELSE LET loop_instructions == Last(instructions_stack)
                  popped == Front(instructions_stack)
              IN  IF popped = <<>>
                  THEN Stopped("UnbalancedBrackets")
                  ELSE Parsing([popped EXCEPT ![Len(popped)] =
                                   Append(@, Loop(0, loop_instructions))])
    ELSE IF instructions_stack = <<>>
         THEN Stopped("UnbalancedBrackets")
         ELSE IF c \notin PrimitiveChars
              THEN Stopped("Panic")
              ELSE Parsing([instructions_stack EXCEPT ![Len(instructions_stack)] =
                               Append(@, FromChar(c))])

\* the `for c in bf.chars()` over the characters lo..hi, in order, up to the first
\* return; the range is walked by halves, which bounds the depth of the evaluation
RECURSIVE O0Chars(_, _, _, _)
O0Chars(src, lo, hi, st) ==
    IF st.tag # "Ok" \/ lo > hi THEN st
    ELSE IF lo = hi THEN O0Char(st.instructions_stack, src[lo])
    ELSE LET mid == (lo + hi) \div 2
         IN  O0Chars(src, mid + 1, hi, O0Chars(src, lo, mid, st))

optimize_o0(src) ==
    LET st == O0Chars(src, 1, Len(src), Parsing(<< <<>> >>))
    IN  IF st.tag # "Ok"
        THEN [tag |-> st.tag, ir |-> <<>>]
        ELSE IF st.instructions_stack # <<>>
             THEN Ok(remove_zero_moves_and_adds(Last(st.instructions_stack)))
             ELSE Err

(***************************************************************************)
(* parser.rs: O1, the peephole fusion                                      *)
(***************************************************************************)
IsClearBody(instructions) ==
    /\ Len(instructions) = 1
    /\ (instructions[1] = Add(1, 0) \/ instructions[1] = Add(-1, 0))

RECURSIVE o1_optimize_vec(_, _)
RECURSIVE O1Fold(_, _, _)

\* the `for i in v` of o1_optimize_vec from instruction n on
O1Fold(v, n, result) ==
    IF n > Len(v) THEN result
    ELSE LET i == v[n] IN
         IF result = <<>>
         THEN O1Fold(v, n + 1, <<i>>)
         ELSE LET last == Last(result)
                  k == Len(result)
              IN
              IF last.op = "Add" /\ last.offset = 0 /\ i.op = "Add" /\ i.offset = 0
              THEN O1Fold(v, n + 1, [result EXCEPT ![k].x = @ + i.x])
              ELSE IF last.op = "Move" /\ i.op = "Move"
              THEN O1Fold(v, n + 1, [result EXCEPT ![k].over = @ + i.over])
              ELSE IF last.op = "Add" /\ last.offset = 0 /\ i.op = "Read" /\ i.offset = 0
              THEN O1Fold(v, n + 1, Append(Front(result), i))
              ELSE IF last = Exact(0, 0) /\ i.op = "Read" /\ i.offset = 0
              THEN O1Fold(v, n + 1, Append(Front(result), i))
              ELSE IF last.op = "Print" /\ i.op = "Print"
              THEN O1Fold(v, n + 1, [result EXCEPT ![k].times = @ + i.times])
              ELSE IF last.op = "Loop" /\ last.over = 0 /\ i.op = "Loop" /\ i.over = 0
              THEN O1Fold(v, n + 1, result)
              ELSE IF last = Exact(0, 0) /\ i.op = "Loop" /\ i.over = 0
              THEN O1Fold(v, n + 1, result)
              ELSE IF i.op = "Loop" /\ i.over = 0
              THEN IF IsClearBody(i.instructions)
                   THEN O1Fold(v, n + 1, Append(result, Exact(0, 0)))
                   ELSE O1Fold(v, n + 1,
                            Append(result, Loop(0, o1_optimize_vec(i.instructions, FALSE))))
              ELSE O1Fold(v, n + 1, Append(result, i))

o1_optimize_vec(v, program_start) ==
    LET result == O1Fold(v, 1, IF program_start THEN <<Exact(0, 0)>> ELSE <<>>)
    IN  IF program_start /\ result # <<>> /\ result[1] = Exact(0, 0)
        THEN Tail(result)
        ELSE result

\* optimize_o1 without the `?` on the result of optimize_o0
optimize_o1_unchecked(src) ==
    Ok(remove_zero_moves_and_adds(o1_optimize_vec(optimize_o0(src).ir, TRUE)))

optimize_o1(src) ==
    LET instructions == optimize_o0(src)
    IN  IF instructions.tag # "Ok"
        THEN instructions
        ELSE Ok(remove_zero_moves_and_adds(o1_optimize_vec(instructions.ir, TRUE)))

(***************************************************************************)
(* parser.rs: O2, the cell behaviors                                       *)
(***************************************************************************)
\* enum Behavior
BehaviorAdd(n) == [kind |-> "Add", n |-> n]
BehaviorExact(n) == [kind |-> "Exact", n |-> n]

\* HashMap::insert and HashMap::remove
Insert(behaviors, key, b) ==
    [q \in DOMAIN behaviors \cup {key} |-> IF q = key THEN b ELSE behaviors[q]]

Remove(behaviors, key) == [q \in DOMAIN behaviors \ {key} |-> behaviors[q]]

\* The orders `behaviors.iter()` is modelled to take: a HashMap iterates in an
\* order the program does not fix; the model takes the keys ascending or descending.
Orders == {"asc", "desc"}

RECURSIVE KeysInOrder(_, _)
KeysInOrder(keys, ord) ==
    IF keys = {} THEN <<>>
    ELSE LET first == IF ord = "asc"
                      THEN CHOOSE q \in keys : \A r \in keys : q <= r
                      ELSE CHOOSE q \in keys : \A r \in keys : q >= r
         IN  <<first>> \o KeysInOrder(keys \ {first}, ord)

\* the flush that emits every behavior as an Add
FlushAdds(behaviors, ord) ==
    LET keys == KeysInOrder(DOMAIN behaviors, ord)
    IN  [q \in 1..Len(keys) |-> Add(behaviors[keys[q]].n, keys[q])]

\* `for (o, b) in behaviors.iter() { result.push(..) }`
Flush(behaviors, ord) ==
    LET keys == KeysInOrder(DOMAIN behaviors, ord)
    IN  [q \in 1..Len(keys) |->
            IF behaviors[keys[q]].kind = "Add"
            THEN Add(behaviors[keys[q]].n, keys[q])
            ELSE Exact(behaviors[keys[q]].n, keys[q])]

NoBehaviors == [q \in {} |-> BehaviorAdd(0)]

RECURSIVE o2_optimize_vec(_, _)
RECURSIVE O2Fold(_, _, _, _, _, _)

\* the `for i in v` of o2_optimize_vec from instruction n on, and what follows it.
\* The arm `_ => panic!` needs an instruction O1 never emits: the CASE has no
\* arm for it.
O2Fold(v, n, result, behaviors, offset, ord) ==
    IF n > Len(v)
    THEN result \o Flush(behaviors, ord) \o (IF offset # 0 THEN <<Move(offset)>> ELSE <<>>)
    ELSE LET i == v[n]
             known == offset \in DOMAIN behaviors
         IN
         CASE i.op = "Move" ->
                O2Fold(v, n + 1, result, behaviors, offset + i.over, ord)
           [] i.op = "Add" /\ i.offset = 0 ->
                O2Fold(v, n + 1, result,
                    Insert(behaviors, offset,
                        IF ~known THEN BehaviorAdd(i.x)
                        ELSE IF behaviors[offset].kind = "Add"
                             THEN BehaviorAdd(behaviors[offset].n + i.x)
                             ELSE BehaviorExact(behaviors[offset].n + i.x)),
                    offset, ord)
           [] i = Exact(0, 0) ->
                O2Fold(v, n + 1, result, Insert(behaviors, offset, BehaviorExact(0)),
                    offset, ord)
           [] i.op = "Read" /\ i.offset = 0 ->
                O2Fold(v, n + 1, Append(result, Read(offset)), Remove(behaviors, offset),
                    offset, ord)
           [] i.op = "Print" /\ i.offset = 0 ->
                O2Fold(v, n + 1,
                    (IF ~known THEN result
                     ELSE IF behaviors[offset].kind = "Add"
                          THEN Append(result, Add(behaviors[offset].n, offset))
                          ELSE Append(result, Exact(behaviors[offset].n, offset)))
                        \o <<PrintOp(i.times, offset)>>,
                    Remove(behaviors, offset), offset, ord)
           [] i.op = "Loop" /\ i.over = 0 ->
                IF known /\ behaviors[offset] = BehaviorExact(0)
                THEN O2Fold(v, n + 1, result, behaviors, offset, ord)
                ELSE O2Fold(v, n + 1,
                        result \o Flush(behaviors, ord)
                            \o <<Loop(offset, o2_optimize_vec(i.instructions, ord))>>,
                        NoBehaviors, 0, ord)

o2_optimize_vec(v, ord) == O2Fold(v, 1, <<>>, NoBehaviors, 0, ord)

optimize_o2(src, ord) ==
    LET instructions == optimize_o1(src)
    IN  IF instructions.tag # "Ok"
        THEN instructions
        ELSE Ok(remove_zero_moves_and_adds(o2_optimize_vec(instructions.ir, ord)))

(***************************************************************************)
(* parser.rs: O3, the multiply loops and the moves folded into offsets     *)
(***************************************************************************)
RECURSIVE MergeFold(_, _, _, _)
RECURSIVE merge_moves_into_offset(_)

\* the `for i in instructions` of merge_moves_into_offset from instruction n on
MergeFold(instructions, n, result, new_offset) ==
    IF n > Len(instructions)
    THEN IF new_offset # 0 THEN Append(result, Move(new_offset)) ELSE result
    ELSE LET i == instructions[n] IN
         IF i.op = "Move"
         THEN MergeFold(instructions, n + 1, result, new_offset + i.over)
         ELSE IF i.op = "Loop"
         THEN MergeFold(instructions, n + 1,
                  Append(result,
                      Loop(i.over + new_offset, merge_moves_into_offset(i.instructions))),
                  new_offset)
         ELSE MergeFold(instructions, n + 1,
                  Append(result, [i EXCEPT !.offset = @ + new_offset]), new_offset)

merge_moves_into_offset(instructions) == MergeFold(instructions, 1, <<>>, 0)

IsSubOne(i) == i.op = "Add" /\ i.x = -1 /\ i.offset = 0

\* the filter and the map of the lowering
RECURSIVE LowerBody(_, _)
\* the lowering with the Mul nodes relative to the pointer, not to the loop's cell
LowerBodyAtPointer(instructions, over) ==
    IF instructions = <<>> THEN <<>>
    ELSE LET i == Head(instructions)
             rest == LowerBody(Tail(instructions), over)
         IN  IF IsSubOne(i) THEN rest
             ELSE IF i.op = "Add" THEN <<Mul(i.offset, i.x, 0)>> \o rest
             ELSE <<i>> \o rest

LowerBody(instructions, over) ==
    IF instructions = <<>> THEN <<>>
    ELSE LET i == Head(instructions)
             rest == LowerBody(Tail(instructions), over)
         IN  IF IsSubOne(i) THEN rest
             ELSE IF i.op = "Add" THEN <<Mul(i.offset, i.x, over)>> \o rest
             ELSE <<i>> \o rest

RECURSIVE o3_optimize_vec(_)
RECURSIVE O3Extend(_)

\* `instructions.into_iter().for_each(|i| result.extend(o3_optimize_vec(i)))`
O3Extend(instructions) ==
    IF instructions = <<>> THEN <<>>
    ELSE o3_optimize_vec(Head(instructions)) \o O3Extend(Tail(instructions))

o3_optimize_vec(instruction) ==
    IF instruction.op = "Loop"
    THEN LET over == instruction.over
             instructions == instruction.instructions
             only_add_and_exact ==
                 \A q \in 1..Len(instructions) : instructions[q].op \in {"Add", "Exact"}
             is_sub_one == \E q \in 1..Len(instructions) : IsSubOne(instructions[q])
         IN  IF only_add_and_exact /\ is_sub_one
             THEN LowerBody(instructions, over) \o <<Exact(0, over), Move(over)>>
             ELSE <<Loop(over, O3Extend(instructions))>>
    ELSE <<instruction>>

optimize_o3(src, ord) ==
    LET instructions == optimize_o2(src, ord)
    IN  IF instructions.tag # "Ok"
        THEN instructions
        ELSE Ok(merge_moves_into_offset(O3Extend(instructions.ir)))

\* optimize_o<l>
Optimize(l, src, ord) ==
    CASE l = 0 -> optimize_o0(src)
      [] l = 1 -> optimize_o1(src)
      [] l = 2 -> optimize_o2(src, ord)
      [] l = 3 -> optimize_o3(src, ord)

Levels == 0..3

(***************************************************************************)
(* interpreter.rs                                                          *)
(***************************************************************************)
Cells == 0..(TapeLen - 1)

\* vec![Wrapping(0); 65536]
ZeroMemory == [q \in Cells |-> 0]

\* `self.memory.get((self.pointer + offset) as usize)` is Some: a negative index
\* cast to usize is far beyond the tape
InBounds(index) == index \in Cells

\* `x as u8`
AsU8(x) == x % CellMod

\* the wrapping update of IR::Add
AddCell(cell, x) ==
    IF x < 0 THEN (cell - AsU8(-x)) % CellMod
    ELSE IF x > 0 THEN (cell + AsU8(x)) % CellMod
    ELSE cell

\* a Mul that adds y once, whatever the counter cell holds
MulCellOnce(target, cell, y) == (target + AsU8(y)) % CellMod

\* `*cell += Wrapping(add as u8)` of IR::Mul, add == cell.0 as i32 * y
MulCell(target, cell, y) == (target + AsU8(cell * y)) % CellMod

\* no run has returned yet
Running == [err |-> "Running", output |-> <<>>]

\* one activation of run_vec: its instructions, the index of the instruction its
\* `for` is at, its local `output`, and whether it is inside the `loop` of that
\* instruction
Activation(instructions) ==
    [instructions |-> instructions, at |-> 1, output |-> <<>>, looping |-> FALSE]

Top == frames[Len(frames)]
Instr == Top.instructions[Top.at]

\* the run is about to fetch an instruction of kind op
Fetching(op) ==
    /\ pc = "run"
    /\ frames # <<>>
    /\ ~Top.looping
    /\ Top.at <= Len(Top.instructions)
    /\ Instr.op = op

\* `self.iterations += 1; if self.iterations > self.max_iterations`
Tick == iterations + 1
\* the budget test off by one: `>` taken for `> .. + 1`
ExceededLate == Tick > max_iterations + 1

Exceeded == Tick > max_iterations

RECURSIVE AllOutput(_)
AllOutput(fs) == IF fs = <<>> THEN <<>> ELSE Head(fs).output \o AllOutput(Tail(fs))

\* `return (Some(err), output)`, and in every enclosing activation
\* `output.extend(outputs); if err.is_some() { return (err, output) }`
ReturnErr(err) ==
    /\ frames' = <<>>
    /\ ret' = [err |-> err, output |-> AllOutput(frames)]

\* the instruction is done: the `for` goes on
Advance(output) ==
    /\ frames' = [frames EXCEPT ![Len(frames)].at = @ + 1,
                                ![Len(frames)].output = output]
    /\ ret' = ret

RECURSIVE Repeat(_, _)
Repeat(cell, times) == IF times = 0 THEN <<>> ELSE <<cell>> \o Repeat(cell, times - 1)

\* Interpreter::from and Interpreter::reset
InterpreterFrom(instructions, max) ==
    /\ program' = instructions
    /\ memory' = ZeroMemory
    /\ pointer' = 0
    /\ iterations' = 0
    /\ max_iterations' = max

\* a reset that forgets the tape
resetKeepsMemory ==
    /\ memory' = memory
    /\ pointer' = 0
    /\ iterations' = 0

reset ==
    /\ memory' = ZeroMemory
    /\ pointer' = 0
    /\ iterations' = 0

\* Interpreter::run and run_iter: run_vec on the program with a fresh iterator
run(instructions, input) ==
    /\ frames' = <<Activation(instructions)>>
    /\ iter' = input
    /\ ret' = Running

\* what the interpreter steps leave alone
UnchangedHarness ==
    UNCHANGED <<harness, pc, bf, order, inputs, o, optimizer, program, max_iterations,
                results, pairs, idx, errors>>

ExecAdd ==
    /\ Fetching("Add")
    /\ iterations' = Tick
    /\ IF Exceeded
       THEN ReturnErr("MaxIterationsExceeded") /\ UNCHANGED memory
       ELSE IF ~InBounds(pointer + Instr.offset)
       THEN ReturnErr("OutOfBounds") /\ UNCHANGED memory
       ELSE /\ memory' = [memory EXCEPT ![pointer + Instr.offset] = AddCell(@, Instr.x)]
            /\ Advance(Top.output)
    /\ UNCHANGED <<pointer, iter>>
    /\ UnchangedHarness

\* a Move that checks the cell it moves to, as the accesses do
ExecMoveChecked ==
    /\ Fetching("Move")
    /\ iterations' = Tick
    /\ IF Exceeded
       THEN ReturnErr("MaxIterationsExceeded") /\ UNCHANGED pointer
       ELSE IF ~InBounds(pointer + Instr.over)
       THEN ReturnErr("OutOfBounds") /\ UNCHANGED pointer
       ELSE /\ pointer' = pointer + Instr.over
            /\ Advance(Top.output)
    /\ UNCHANGED <<memory, iter>>
    /\ UnchangedHarness

ExecMove ==
    /\ Fetching("Move")
    /\ iterations' = Tick
    /\ IF Exceeded
       THEN ReturnErr("MaxIterationsExceeded") /\ UNCHANGED pointer
       ELSE /\ pointer' = pointer + Instr.over
            /\ Advance(Top.output)
    /\ UNCHANGED <<memory, iter>>
    /\ UnchangedHarness

ExecPrint ==
    /\ Fetching("Print")
    /\ iterations' = Tick
    /\ IF Exceeded
       THEN ReturnErr("MaxIterationsExceeded")
       ELSE IF ~InBounds(pointer + Instr.offset)
       THEN ReturnErr("OutOfBounds")
       ELSE Advance(Top.output \o Repeat(memory[pointer + Instr.offset], Instr.times))
    /\ UNCHANGED <<memory, pointer, iter>>
    /\ UnchangedHarness

ExecRead ==
    /\ Fetching("Read")
    /\ iterations' = Tick
    /\ IF Exceeded
       THEN ReturnErr("MaxIterationsExceeded") /\ UNCHANGED <<memory, iter>>
       ELSE IF ~InBounds(pointer + Instr.offset)
       THEN ReturnErr("OutOfBounds") /\ UNCHANGED <<memory, iter>>
       ELSE IF iter = <<>>
       THEN ReturnErr("OutOfInputs") /\ UNCHANGED <<memory, iter>>
       ELSE /\ memory' = [memory EXCEPT ![pointer + Instr.offset] = Head(iter)]
            /\ iter' = Tail(iter)
            /\ Advance(Top.output)
    /\ UNCHANGED pointer
    /\ UnchangedHarness

ExecExact ==
    /\ Fetching("Exact")
    /\ iterations' = Tick
    /\ IF Exceeded
       THEN ReturnErr("MaxIterationsExceeded") /\ UNCHANGED memory
       ELSE IF ~InBounds(pointer + Instr.offset)
       THEN ReturnErr("OutOfBounds") /\ UNCHANGED memory
       ELSE /\ memory' = [memory EXCEPT ![pointer + Instr.offset] = AsU8(Instr.x)]
            /\ Advance(Top.output)
    /\ UNCHANGED <<pointer, iter>>
    /\ UnchangedHarness

ExecMul ==
    /\ Fetching("Mul")
    /\ iterations' = Tick
    /\ IF Exceeded
       THEN ReturnErr("MaxIterationsExceeded") /\ UNCHANGED memory
       ELSE IF ~InBounds(pointer + Instr.offset)
       THEN ReturnErr("OutOfBounds") /\ UNCHANGED memory
       ELSE IF ~InBounds(pointer + Instr.offset + Instr.x)
       THEN ReturnErr("OutOfBounds") /\ UNCHANGED memory
       ELSE /\ memory' = [memory EXCEPT ![pointer + Instr.offset + Instr.x] =
                             MulCell(@, memory[pointer + Instr.offset], Instr.y)]
            /\ Advance(Top.output)
    /\ UNCHANGED <<pointer, iter>>
    /\ UnchangedHarness

\* IR::Loop: the pre-move, then the `loop` begins
ExecLoop ==
    /\ Fetching("Loop")
    /\ iterations' = Tick
    /\ IF Exceeded
       THEN ReturnErr("MaxIterationsExceeded") /\ UNCHANGED pointer
       ELSE /\ pointer' = pointer + Instr.over
            /\ frames' = [frames EXCEPT ![Len(frames)].looping = TRUE]
            /\ ret' = ret
    /\ UNCHANGED <<memory, iter>>
    /\ UnchangedHarness

\* one turn of the `loop`: the budget, the condition, and the call of run_vec on
\* the body
LoopCheck ==
    /\ pc = "run"
    /\ frames # <<>>
    /\ Top.looping
    /\ iterations' = Tick
    /\ IF Exceeded
       THEN ReturnErr("MaxIterationsExceeded")
       ELSE IF ~InBounds(pointer)
       THEN ReturnErr("OutOfBounds")
       ELSE IF memory[pointer] = 0
       THEN /\ frames' = [frames EXCEPT ![Len(frames)].looping = FALSE,
                                        ![Len(frames)].at = @ + 1]
            /\ ret' = ret
       ELSE /\ frames' = Append(frames, Activation(Instr.instructions))
            /\ ret' = ret
    /\ UNCHANGED <<memory, pointer, iter>>
    /\ UnchangedHarness

\* `(None, output)`: the `for` of the innermost activation is over
RunVecReturn ==
    /\ pc = "run"
    /\ frames # <<>>
    /\ ~Top.looping
    /\ Top.at > Len(Top.instructions)
    /\ IF Len(frames) = 1
       THEN /\ frames' = <<>>
            /\ ret' = [err |-> "None", output |-> Top.output]
       ELSE /\ frames' = [Front(frames) EXCEPT ![Len(frames) - 1].output = @ \o Top.output]
            /\ ret' = ret
    /\ UNCHANGED <<memory, pointer, iterations, iter>>
    /\ UnchangedHarness

Interpret ==
    \/ ExecAdd
    \/ ExecMove
    \/ ExecPrint
    \/ ExecRead
    \/ ExecExact
    \/ ExecMul
    \/ ExecLoop
    \/ LoopCheck
    \/ RunVecReturn

\* the run has returned
Returned == pc = "run" /\ frames = <<>>

(***************************************************************************)
(* test.rs: `specific`, the differential test of the four levels           *)
(***************************************************************************)
NotCalled == [tag |-> "NotCalled", ir |-> <<>>]

\* the bracket check of random_bf: the source is bracket-balanced
RECURSIVE BalancedFrom(_, _, _)
BalancedFrom(src, n, stack) ==
    IF n > Len(src) THEN stack = 0
    ELSE IF src[n] = "[" THEN BalancedFrom(src, n + 1, stack + 1)
    ELSE IF src[n] = "]" THEN stack > 0 /\ BalancedFrom(src, n + 1, stack - 1)
    ELSE BalancedFrom(src, n + 1, stack)

Balanced(src) == BalancedFrom(src, 1, 0)

\* `optimize_o0(&bf) .. optimize_o3(&bf)`; a panic of the first call ends the test
SpecificOptimize ==
    /\ harness = "specific"
    /\ pc = "optimize"
    /\ o' = [l \in Levels |-> Optimize(l, bf, order)]
    /\ pc' = IF optimize_o0(bf).tag = "Panic" THEN "panic" ELSE "check"
    /\ UNCHANGED <<harness, bf, order, inputs, optimizer, program, memory, pointer,
                   iterations, max_iterations, frames, iter, ret, results, pairs, idx,
                   errors>>

\* `if o0.is_err() { assert_eq!(o0, o1); .. return }`
SpecificCheck ==
    /\ harness = "specific"
    /\ pc = "check"
    /\ pc' = IF o[0].tag = "Ok" THEN "start"
             ELSE IF \A l \in Levels : o[l] = o[0] THEN "done" ELSE "assert_failed"
    /\ optimizer' = 0
    /\ UNCHANGED <<harness, bf, order, inputs, o, program, memory, pointer, iterations,
                   max_iterations, frames, iter, ret, results, pairs, idx, errors>>

\* `Interpreter::from(o<l>, max_iterations)` and `i<l>.run_iter(inputs<l>)`
SpecificRun ==
    /\ harness = "specific"
    /\ pc = "start"
    /\ InterpreterFrom(o[optimizer].ir, max_iterations)
    /\ run(o[optimizer].ir, inputs)
    /\ pc' = "run"
    /\ UNCHANGED <<harness, bf, order, inputs, o, optimizer, results, pairs, idx, errors>>

\* `let (e<l>, r<l>) = ..`: the run of level l has returned
SpecificReturn ==
    /\ harness = "specific"
    /\ Returned
    /\ results' = Append(results,
                      [err |-> ret.err, output |-> ret.output, pointer |-> pointer,
                       memory |-> memory, iterations |-> iterations])
    /\ IF optimizer < 3
       THEN optimizer' = optimizer + 1 /\ pc' = "start"
       ELSE optimizer' = optimizer /\ pc' = "compare"
    /\ UNCHANGED <<harness, bf, order, inputs, o, program, memory, pointer, iterations,
                   max_iterations, frames, iter, ret, pairs, idx, errors>>

\* the assertions on (e0, r0) .. (e3, r3)
SpecificCompare ==
    /\ harness = "specific"
    /\ pc = "compare"
    /\ pc' = IF results[1].err # "None"
             THEN IF \A l \in 2..4 : results[l].err = results[1].err
                  THEN "done" ELSE "assert_failed"
             ELSE IF \A l \in 2..4 : results[l].output = results[1].output
                  THEN "done" ELSE "assert_failed"
    /\ UNCHANGED <<harness, bf, order, inputs, o, optimizer, program, memory, pointer,
                   iterations, max_iterations, frames, iter, ret, results, pairs, idx,
                   errors>>

(***************************************************************************)
(* lib.rs: `run`, the test facade behind run_bf_o0 .. run_bf_o3            *)
(***************************************************************************)
\* Interpreter::return_shrinked_memory: the tape up to its last nonzero cell
return_shrinked_memory(mem) ==
    LET nonzero == {q \in Cells : mem[q] # 0}
        last_non_zero_cell ==
            IF nonzero = {} THEN 0 ELSE CHOOSE q \in nonzero : \A r \in nonzero : r <= q
    IN  [q \in 0..last_non_zero_cell |-> mem[q]]

TestFailure(typ, payload, input, expected_output) ==
    [typ |-> typ, payload |-> payload, input |-> input,
     expected_output |-> expected_output]

\* the four `if`s of the facade chained by `else`: the first failure only
FailuresExclusive(err, actual, ptr, mem, input, expected_output) ==
    IF err # "None"
    THEN <<TestFailure("RunTimeError", err, input, expected_output)>>
    ELSE IF ptr # 0
    THEN <<TestFailure("NonZeroPointer", ptr, input, expected_output)>>
    ELSE IF \E q \in DOMAIN mem : mem[q] # 0
    THEN <<TestFailure("NonZeroMemory", mem, input, expected_output)>>
    ELSE IF actual # expected_output
    THEN <<TestFailure("IncorrectOutput", actual, input, expected_output)>>
    ELSE <<>>

\* the TestFailures of one pair, in the order they are pushed
Failures(err, actual, ptr, mem, input, expected_output) ==
    (IF err # "None"
     THEN <<TestFailure("RunTimeError", err, input, expected_output)>>
     ELSE <<>>)
    \o (IF ptr # 0
        THEN <<TestFailure("NonZeroPointer", ptr, input, expected_output)>>
        ELSE <<>>)
    \o (IF \E q \in DOMAIN mem : mem[q] # 0
        THEN <<TestFailure("NonZeroMemory", mem, input, expected_output)>>
        ELSE <<>>)
    \o (IF actual # expected_output
        THEN <<TestFailure("IncorrectOutput", actual, input, expected_output)>>
        ELSE <<>>)

\* `match optimizer(bf)`: Interpreter::from on Ok, todo!() on Err
FacadeOptimize ==
    /\ harness = "run"
    /\ pc = "optimize"
    /\ LET r == Optimize(optimizer, bf, order) IN
       /\ o' = [l \in Levels |-> IF l = optimizer THEN r ELSE NotCalled]
       /\ IF r.tag = "Ok"
          THEN /\ InterpreterFrom(r.ir, max_iterations)
               /\ pc' = "pair"
          ELSE /\ pc' = "panic"
               /\ UNCHANGED <<program, memory, pointer, iterations, max_iterations>>
    /\ UNCHANGED <<harness, bf, order, inputs, optimizer, frames, iter, ret, results,
                   pairs, idx, errors>>

\* `for (input, expected_output) in zipped { let (err, actual) = interpreter.run(&input)`
FacadeRun ==
    /\ harness = "run"
    /\ pc = "pair"
    /\ idx < Len(pairs)
    /\ run(program, pairs[idx + 1].input)
    /\ pc' = "run"
    /\ UNCHANGED <<harness, bf, order, inputs, o, optimizer, program, memory, pointer,
                   iterations, max_iterations, results, pairs, idx, errors>>

\* the rest of the loop body: the failures of the pair, then `interpreter.reset()`
FacadeReport ==
    /\ harness = "run"
    /\ Returned
    /\ errors' = errors \o Failures(ret.err, ret.output, pointer,
                               return_shrinked_memory(memory),
                               pairs[idx + 1].input, pairs[idx + 1].expected_output)
    /\ reset
    /\ idx' = idx + 1
    /\ pc' = "pair"
    /\ UNCHANGED <<harness, bf, order, inputs, o, optimizer, program, max_iterations,
                   frames, iter, ret, results, pairs>>

\* the pairs are exhausted: `errors` is returned
FacadeReturn ==
    /\ harness = "run"
    /\ pc = "pair"
    /\ idx = Len(pairs)
    /\ pc' = "done"
    /\ UNCHANGED <<harness, bf, order, inputs, o, optimizer, program, memory, pointer,
                   iterations, max_iterations, frames, iter, ret, results, pairs, idx,
                   errors>>

(***************************************************************************)
(* A loop of an O2 tree and its lowering by o3_optimize_vec, each run by    *)
(* run_vec from the same tape and pointer                                  *)
(***************************************************************************)
\* the Loop node of the O2 tree of the source
TheLoop ==
    LET ir == optimize_o2(bf, order).ir
    IN  ir[CHOOSE q \in 1..Len(ir) : ir[q].op = "Loop"]

\* the state run_vec starts from, and what it returned with
EndState ==
    [err |-> ret.err, output |-> ret.output, pointer |-> pointer, memory |-> memory,
     iterations |-> iterations]

\* run_vec on the loop (optimizer 2) or on its lowering (optimizer 3), from the
\* tape and the pointer of results[1]
LowerStart ==
    /\ harness = "lower"
    /\ pc = "start"
    /\ LET instructions == IF optimizer = 2 THEN <<TheLoop>> ELSE o3_optimize_vec(TheLoop)
       IN  /\ program' = instructions
           /\ run(instructions, inputs)
    /\ memory' = results[1].memory
    /\ pointer' = results[1].pointer
    /\ iterations' = 0
    /\ pc' = "run"
    /\ UNCHANGED <<harness, bf, order, inputs, o, optimizer, max_iterations, results,
                   pairs, idx, errors>>

\* run_vec has returned: the end state is kept, and the lowering runs next
LowerReturn ==
    /\ harness = "lower"
    /\ Returned
    /\ results' = Append(results, EndState)
    /\ IF optimizer = 2
       THEN optimizer' = 3 /\ pc' = "start"
       ELSE optimizer' = optimizer /\ pc' = "done"
    /\ UNCHANGED <<harness, bf, order, inputs, o, program, memory, pointer, iterations,
                   max_iterations, frames, iter, ret, pairs, idx, errors>>

(***************************************************************************)
(* The inputs of the specifications                                        *)
(***************************************************************************)
Commands == {"+", "-", ">", "<", ".", ",", "[", "]"}

\* the characters of the parse specification: the commands and two comments
SourceChars == Commands \cup {"a", " "}

\* the pieces the sources of the run specifications are made of: the commands,
\* the clear loop and the two move loops
Tokens ==
    {<<c>> : c \in Commands}
        \cup {<<"[", "-", "]">>,
              <<"[", "-", ">", "+", "<", "]">>,
              <<"[", "-", "<", "+", ">", "]">>}

RECURSIVE SeqsUpTo(_, _)
SeqsUpTo(S, n) ==
    IF n = 0 THEN {<<>>}
    ELSE LET shorter == SeqsUpTo(S, n - 1)
         IN  shorter \cup {Append(q, c) : q \in shorter, c \in S}

RECURSIVE TokenSources(_)
TokenSources(n) ==
    IF n = 0 THEN {<<>>}
    ELSE LET shorter == TokenSources(n - 1)
         IN  shorter \cup {q \o t : q \in shorter, t \in Tokens}

\* the pieces the sources of the optimizer specification are made of: commands,
\* the clear loop, and a move loop behind a move
OptimizerTokens ==
    {<<c>> : c \in {"+", "-", ">", "<", ".", ",", "[", "]"}}
        \cup {<<"[", "-", "]">>,
              <<">", "[", "-", ">", "+", "<", "]">>}

RECURSIVE OptimizerSources(_)
OptimizerSources(n) ==
    IF n = 0 THEN {<<>>}
    ELSE LET shorter == OptimizerSources(n - 1)
         IN  shorter \cup {q \o t : q \in shorter, t \in OptimizerTokens}

InputBytes == {0, 1}

HasRead(src) == \E n \in 1..Len(src) : src[n] = ","

\* the input streams tried on a source: only a source with a `,` reads any
InputsFor(src) == IF HasRead(src) THEN SeqsUpTo(InputBytes, MaxInputs) ELSE {<<>>}

\* the orders tried on a source: the two, where they give different programs
OrdersFor(src) ==
    {"asc"} \cup {ord \in Orders : optimize_o2(src, ord) # optimize_o2(src, "asc")}

ExpectedOutputs == {<<>>, <<0>>}

PairsFor(src) ==
    {[input |-> i, expected_output |-> e] :
        i \in (IF HasRead(src) THEN {<<>>, <<1>>} ELSE {<<>>}), e \in ExpectedOutputs}

Idle ==
    /\ o = [l \in Levels |-> NotCalled]
    /\ program = <<>>
    /\ memory = ZeroMemory
    /\ pointer = 0
    /\ iterations = 0
    /\ frames = <<>>
    /\ iter = <<>>
    /\ ret = Running
    /\ results = <<>>
    /\ idx = 0
    /\ errors = <<>>

\* the differential test on every source of at most MaxTok tokens
InitSpecific ==
    /\ harness = "specific"
    /\ pc = "optimize"
    /\ bf \in TokenSources(MaxTok)
    /\ order \in OrdersFor(bf)
    /\ inputs \in InputsFor(bf)
    /\ max_iterations \in {LowIterations, HighIterations}
    /\ optimizer = 0
    /\ pairs = <<>>
    /\ Idle

\* the four optimizers on every source of at most MaxSrcLen characters
InitParse ==
    /\ harness = "specific"
    /\ pc = "optimize"
    /\ bf \in SeqsUpTo(SourceChars, MaxSrcLen)
    /\ order \in OrdersFor(bf)
    /\ inputs = <<>>
    /\ max_iterations = HighIterations
    /\ optimizer = 0
    /\ pairs = <<>>
    /\ Idle

\* the four optimizers on every source of at most MaxOptTok tokens
InitOptimize ==
    /\ harness = "specific"
    /\ pc = "optimize"
    /\ bf \in OptimizerSources(MaxOptTok)
    /\ order \in OrdersFor(bf)
    /\ inputs = <<>>
    /\ max_iterations = HighIterations
    /\ optimizer = 0
    /\ pairs = <<>>
    /\ Idle

\* the facade on every source of fewer than MaxTok tokens, at every level
InitFacade ==
    /\ harness = "run"
    /\ pc = "optimize"
    /\ bf \in TokenSources(MaxTok - 1)
    /\ order \in OrdersFor(bf)
    /\ inputs = <<>>
    /\ max_iterations = HighIterations
    /\ optimizer \in Levels
    /\ pairs \in SeqsUpTo(PairsFor(bf), MaxPairs)
    /\ Idle

NextSpecific ==
    \/ SpecificOptimize
    \/ SpecificCheck
    \/ SpecificRun
    \/ SpecificReturn
    \/ SpecificCompare
    \/ Interpret

NextParse == SpecificOptimize

NextFacade ==
    \/ FacadeOptimize
    \/ FacadeRun
    \/ FacadeReport
    \/ FacadeReturn
    \/ Interpret

Spec == InitSpecific /\ [][NextSpecific]_vars

SpecParse == InitParse /\ [][NextParse]_vars

SpecFacade == InitFacade /\ [][NextFacade]_vars

SpecOptimize == InitOptimize /\ [][NextParse]_vars

\* scenarios 1, 3 and 5 of the specification: source, input, expected output
Scenario1 ==
    <<"+", "+", "+", "+", "+", "+", "+", "+", "[", ">", "+", "+", "+", "+", "+", "+",
      "+", "+", "<", "-", "]", ">", "+", ".">>

Scenario3 ==
    <<",", ">", ",", "<", "[", ">", "[", ">", "+", ">", "+", "<", "<", "-", "]", ">",
      ">", "[", "<", "<", "+", ">", ">", "-", "]", "<", "<", "<", "-", "]", ">", "[",
      "-", "]", ">", "[", "-", "<", "<", "+", ">", ">", "]", "<", "<", ".", "[", "-",
      "]", "<">>

Scenario5 ==
    <<"[", "-", "]", "+", "+", "+", ".">>

Scenarios ==
    {[bf |-> Scenario1, input |-> <<>>, expected_output |-> <<65>>],
     [bf |-> Scenario3, input |-> <<200, 100>>, expected_output |-> <<44>>],
     [bf |-> Scenario5, input |-> <<>>, expected_output |-> <<3>>]}

\* the budget of the scenarios: the max_iterations of the differential test
ScenarioIterations == 1000000

\* the facade on each scenario, at every level
InitScenario ==
    /\ harness = "run"
    /\ pc = "optimize"
    /\ \E sc \in Scenarios :
          /\ bf = sc.bf
          /\ pairs = <<[input |-> sc.input, expected_output |-> sc.expected_output]>>
    /\ optimizer \in Levels
    /\ order \in (IF optimizer >= 2 THEN OrdersFor(bf) ELSE {"asc"})
    /\ inputs = <<>>
    /\ max_iterations = ScenarioIterations
    /\ Idle

SpecScenario == InitScenario /\ [][NextFacade]_vars

\* the sources of the lowering specification: a read, then an additive loop
LoweringSources ==
    {<<",", "[", "-", ">", "+", "<", "]">>,
     <<",", ">", "[", "<", "+", "+", "+", ">", "-", "]">>,
     <<",", "[", "-", ">", "-", ">", "+", "+", "<", "<", "]">>,
     <<",", "<", "[", ">", "-", "-", "<", "-", "]">>}

CounterValues == (0..MaxCounter) \cup {CellMod \div 2, CellMod - 1}

OtherValues == {0, 1, CellMod - 1}

\* a loop and its lowering from every pointer of the first cells and every tape
\* with a counter of CounterValues and the other cells at a value of OtherValues
InitLower ==
    /\ harness = "lower"
    /\ pc = "start"
    /\ bf \in LoweringSources
    /\ order \in OrdersFor(bf)
    /\ inputs = <<>>
    /\ max_iterations = ScenarioIterations
    /\ optimizer = 2
    /\ pairs = <<>>
    /\ o = [l \in Levels |-> NotCalled]
    /\ program = <<>>
    /\ iterations = 0
    /\ frames = <<>>
    /\ iter = <<>>
    /\ ret = Running
    /\ idx = 0
    /\ errors = <<>>
    /\ pointer \in 0..2
    /\ \E c \in CounterValues, v \in OtherValues :
          memory = [q \in Cells |-> IF q = pointer + TheLoop.over THEN c ELSE v]
    /\ results = <<EndState>>

NextLower ==
    \/ LowerStart
    \/ LowerReturn
    \/ ExecAdd
    \/ ExecMove
    \/ ExecExact
    \/ ExecMul
    \/ ExecLoop
    \/ LoopCheck
    \/ RunVecReturn

SpecLower == InitLower /\ [][NextLower]_vars

(***************************************************************************)
(* The claims                                                              *)
(***************************************************************************)
\* the four runs of the differential test of a bracket-balanced source are over
FourRuns == harness = "specific" /\ Len(results) = 4 /\ Balanced(bf)

\* C1: when the O0 run of a bracket-balanced source ends without a runtime
\* error, the O1, O2 and O3 runs with the same inputs and the same bound return
\* the output of the O0 run.
C1_SameOutput ==
    (FourRuns /\ results[1].err = "None")
        => \A l \in 2..4 : results[l].output = results[1].output

\* C2: when the O0 run of a bracket-balanced source ends with a runtime error,
\* the O1, O2 and O3 runs with the same inputs and the same bound end with that
\* same runtime error.
C2_SameError ==
    (FourRuns /\ results[1].err # "None")
        => \A l \in 2..4 : results[l].err = results[1].err

\* a step of the interpreter is about to be taken
Stepping == pc = "run" /\ frames # <<>>

\* what a run can still do: every step before the budget is exceeded adds one
\* to the counter or ends an activation
Variant == 2 * (max_iterations + 1 - iterations) + Len(frames)

\* C3: the iteration counter is incremented once before each executed
\* instruction and once before each loop-condition check; it never exceeds
\* max_iterations + 1; the step that takes it beyond max_iterations returns
\* MaxIterationsExceeded with the output produced so far and executes nothing;
\* and every run terminates: each of its steps decreases a natural number.
C3_BudgetStep ==
    Stepping =>
        /\ (Top.looping \/ Top.at <= Len(Top.instructions)) => iterations' = iterations + 1
        /\ iterations' > max_iterations =>
              /\ frames' = <<>>
              /\ ret' = [err |-> "MaxIterationsExceeded", output |-> AllOutput(frames)]
              /\ memory' = memory
              /\ pointer' = pointer
              /\ iter' = iter
        /\ ret'.err = "MaxIterationsExceeded" => iterations' = max_iterations + 1
        /\ Variant' < Variant
        /\ Variant' >= 0

\* C3: the counter never exceeds max_iterations + 1, and every step of a run
\* keeps to C3_BudgetStep: one increment per instruction and per loop check,
\* MaxIterationsExceeded with the output so far and nothing executed, termination.
C3_Budget ==
    /\ [](iterations <= max_iterations + 1)
    /\ [][C3_BudgetStep]_vars

C3_Witness ==
    /\ Returned
    /\ ret.err = "MaxIterationsExceeded"
    /\ ret.output # <<>>
    /\ iterations = max_iterations + 1

\* the tape indexes the next step accesses
Accessed ==
    IF Top.looping THEN {pointer}
    ELSE IF Top.at > Len(Top.instructions) THEN {}
    ELSE IF Instr.op \in {"Add", "Print", "Read", "Exact"} THEN {pointer + Instr.offset}
    ELSE IF Instr.op = "Mul"
    THEN {pointer + Instr.offset, pointer + Instr.offset + Instr.x}
    ELSE {}

\* C4: an executed Add, Print, Read, Exact, loop-condition check or Mul with an
\* accessed index outside the tape returns OutOfBounds, leaves the tape as it
\* was and consumes no input; a Move and the pre-move of a Loop never fail.
C4_AccessStep ==
    (Stepping /\ ~Exceeded) =>
        IF \E q \in Accessed : q \notin Cells
        THEN /\ frames' = <<>>
             /\ ret' = [err |-> "OutOfBounds", output |-> AllOutput(frames)]
             /\ memory' = memory
             /\ iter' = iter
             /\ pointer' = pointer
        ELSE /\ ret'.err \notin {"OutOfBounds"}
             /\ (~Top.looping /\ Top.at <= Len(Top.instructions)
                    /\ Instr.op \in {"Move", "Loop"})
                  => pointer' = pointer + Instr.over /\ frames' # <<>>

\* C4: every step of a run keeps to C4_AccessStep: an access outside the tape
\* returns OutOfBounds and changes nothing; a Move and a pre-move never fail.
C4_OutOfBounds == [][C4_AccessStep]_vars

\* the pointer left the tape by a Move, which did not fail; the access that
\* followed returned OutOfBounds, with the earlier writes on the tape and an
\* input left in the stream
C4_Witness ==
    /\ Returned
    /\ ret.err = "OutOfBounds"
    /\ pointer \notin Cells
    /\ memory # ZeroMemory
    /\ iter # <<>>

\* the source has no character other than the eight commands
OverCommands(src) == \A n \in 1..Len(src) : src[n] \in Commands

\* the optimizers have been called
Parsed == pc # "optimize"

\* C5: optimize_o0 returns UnbalancedBrackets for every source whose brackets
\* do not match, and an IR tree only for a bracket-balanced source.
C5_Unbalanced ==
    (Parsed /\ OverCommands(bf)) =>
        /\ ~Balanced(bf) => o[0] = Err
        /\ o[0].tag = "Ok" => Balanced(bf)

RECURSIVE StripComments(_)
StripComments(src) ==
    IF src = <<>> THEN <<>>
    ELSE IF Head(src) \in Commands THEN <<Head(src)>> \o StripComments(Tail(src))
    ELSE StripComments(Tail(src))

\* C6: optimize_o0 returns for a source what it returns for the source with
\* all non-command characters deleted, and never aborts on such a character.
C6_Comments ==
    Parsed => (o[0] = optimize_o0(StripComments(bf)) /\ o[0].tag # "Panic")

\* C7: on a source over the eight commands, optimize_o0 returns
\* UnbalancedBrackets exactly when optimize_o1, optimize_o2 and optimize_o3 do.
C7_ParseErrors ==
    (Parsed /\ OverCommands(bf)) =>
        \A l \in 1..3 : (o[0] = Err) <=> (o[l] = Err)

C7_Witness ==
    /\ Parsed
    /\ OverCommands(bf)
    /\ \A l \in Levels : o[l] = Err
    /\ Len(bf) = MaxSrcLen

\* the failures FacadeReport adds for the pair
Added == SubSeq(errors', Len(errors) + 1, Len(errors'))

\* C8: for each pair the facade adds a RunTimeError failure iff the run returned
\* an error, a NonZeroPointer failure iff the final pointer is not 0, a
\* NonZeroMemory failure iff some cell is nonzero, an IncorrectOutput failure
\* iff the output differs from the expected one, each at most once and nothing
\* else.
C8_ReportStep ==
    (harness = "run" /\ Returned) =>
        LET typs == {Added[q].typ : q \in 1..Len(Added)} IN
        /\ SubSeq(errors', 1, Len(errors)) = errors
        /\ Len(Added) = Cardinality(typs)
        /\ "RunTimeError" \in typs <=> ret.err # "None"
        /\ "NonZeroPointer" \in typs <=> pointer # 0
        /\ "NonZeroMemory" \in typs <=> (\E q \in Cells : memory[q] # 0)
        /\ "IncorrectOutput" \in typs <=> ret.output # pairs[idx + 1].expected_output
        /\ typs \subseteq {"RunTimeError", "NonZeroPointer", "NonZeroMemory",
                           "IncorrectOutput"}
        /\ \A q \in 1..Len(Added) :
              /\ Added[q].input = pairs[idx + 1].input
              /\ Added[q].expected_output = pairs[idx + 1].expected_output

\* C8: every report of the facade keeps to C8_ReportStep: the four failures,
\* each iff its condition holds, each at most once, nothing else.
C8_Failures == [][C8_ReportStep]_vars

\* one pair has given all four failures
C8_Witness ==
    /\ harness = "run"
    /\ idx = 1
    /\ Len(errors) = 4

\* C9: every pair of the facade starts from a zero tape, pointer 0 and
\* iteration counter 0; reset leaves max_iterations and the program unchanged;
\* and the failures of a pair do not depend on the pairs run before it: the
\* same pair twice gives the same failures twice.
C9_ResetStep ==
    (harness = "run" /\ Returned) =>
        /\ program' = program
        /\ max_iterations' = max_iterations
        /\ memory' = ZeroMemory
        /\ pointer' = 0
        /\ iterations' = 0

\* C9: every pair starts from a zero tape, pointer 0 and counter 0; reset keeps
\* max_iterations and the program; the same pair twice gives the same failures.
C9_Fresh ==
    /\ [](harness = "run" /\ pc = "pair" =>
            memory = ZeroMemory /\ pointer = 0 /\ iterations = 0)
    /\ [][C9_ResetStep]_vars
    /\ [](harness = "run" /\ pc = "done" /\ Len(pairs) = 2 /\ pairs[1] = pairs[2] =>
            \E half \in 0..Len(errors) :
                /\ Len(errors) = 2 * half
                /\ SubSeq(errors, 1, half) = SubSeq(errors, half + 1, Len(errors)))

\* a second pair starts after a run that ended with an error, a nonzero pointer
\* and a dirty tape
C9_Witness ==
    /\ harness = "run"
    /\ pc = "pair"
    /\ idx = 1
    /\ Len(pairs) = 2
    /\ {"RunTimeError", "NonZeroPointer", "NonZeroMemory"}
           \subseteq {errors[q].typ : q \in 1..Len(errors)}

\* the facade has returned the failures of a scenario
ScenarioDone(src) == harness = "run" /\ pc = "done" /\ bf = src /\ Len(pairs) = 1

\* C10 as claimed: for scenarios 1, 3 and 5 the facade returns an empty failure
\* list at each of O0, O1, O2 and O3.
C10_NoFailures ==
    (ScenarioDone(Scenario1) \/ ScenarioDone(Scenario3) \/ ScenarioDone(Scenario5))
        => errors = <<>>

\* the failures the facade returns for a scenario: the types and the payloads
Reported == [q \in 1..Len(errors) |-> <<errors[q].typ, errors[q].payload>>]

\* C10 as amended: at each of O0, O1, O2 and O3 the facade returns, for scenario 1,
\* NonZeroPointer(1) and NonZeroMemory([0, 65]) (the output is the expected [65]);
\* for scenario 3, NonZeroPointer(-1) and IncorrectOutput([32]), 32 being
\* 200 * 100 mod 256 (the tape ends all zero); for scenario 5, NonZeroMemory([3])
\* (the output is the expected [3], the pointer ends at 0).
C10_ScenarioFailures ==
    /\ ScenarioDone(Scenario1) =>
          Reported = << <<"NonZeroPointer", 1>>,
                        <<"NonZeroMemory", [q \in 0..1 |-> IF q = 1 THEN 65 ELSE 0]>> >>
    /\ ScenarioDone(Scenario3) =>
          Reported = << <<"NonZeroPointer", -1>>,
                        <<"IncorrectOutput", <<(200 * 100) % CellMod>> >> >>
    /\ ScenarioDone(Scenario5) =>
          Reported = << <<"NonZeroMemory", [q \in 0..0 |-> 3]>> >>
    /\ (harness = "run" /\ pc = "done") => \A q \in 1..Len(errors) :
          /\ errors[q].input = pairs[1].input
          /\ errors[q].expected_output = pairs[1].expected_output

\* the facade has returned the failures of scenario 1 run at O3, where the loop
\* is lowered to a Mul
C10_Witness ==
    /\ ScenarioDone(Scenario1)
    /\ optimizer = 3
    /\ \E q \in 1..Len(program) : program[q].op = "Mul"
    /\ Len(errors) = 2

\* the tree has no Add with x = 0 and no Move with over = 0, at any depth
RECURSIVE NoZeroOps(_)
NoZeroOps(v) ==
    \A q \in 1..Len(v) :
        /\ ~(v[q].op = "Add" /\ v[q].x = 0)
        /\ ~(v[q].op = "Move" /\ v[q].over = 0)
        /\ v[q].op = "Loop" => NoZeroOps(v[q].instructions)

\* the tree has a node of kind op, at some depth
RECURSIVE HasOp(_, _)
HasOp(v, op) ==
    \E q \in 1..Len(v) : v[q].op = op \/ (v[q].op = "Loop" /\ HasOp(v[q].instructions, op))

\* C11: no IR tree returned by optimize_o0, optimize_o1, optimize_o2 or
\* optimize_o3 contains, at any depth, an Add with x = 0 or a Move with over = 0.
C11_NoZeroOps ==
    Parsed => \A l \in Levels : o[l].tag = "Ok" => NoZeroOps(o[l].ir)

\* the fusion of O1 made an Add or a Move of 0, which the filter took out, and O3 lowered a
\* loop behind a move, whose Move{over} the folding took out
C11_Witness ==
    /\ Parsed
    /\ o[3].tag = "Ok"
    /\ ~NoZeroOps(o1_optimize_vec(o[0].ir, TRUE))
    /\ HasOp(o[3].ir, "Mul")
    /\ HasOp(O3Extend(o[2].ir), "Move")

\* O1's fusion pass on a tree: the implicit program-start clear, the rules and the
\* filter of the zero operations
O1Pass(ir) == remove_zero_moves_and_adds(o1_optimize_vec(ir, TRUE))

\* C12: for every bracket-balanced source, O1's fusion pass applied to the tree
\* optimize_o1 returned gives that tree again.
C12_Idempotent ==
    (Parsed /\ Balanced(bf) /\ o[1].tag = "Ok") => O1Pass(o[1].ir) = o[1].ir

\* C13: when the O0 run of a bracket-balanced source ends without error, the O1
\* and the O2 run with the same inputs and bound, for either flush order, end
\* without error with the same output, the same final pointer and the same
\* final tape as the O0 run.
C13_SameEndState ==
    (FourRuns /\ results[1].err = "None") =>
        \A l \in 2..3 :
            /\ results[l].err = "None"
            /\ results[l].output = results[1].output
            /\ results[l].pointer = results[1].pointer
            /\ results[l].memory = results[1].memory

\* the runs ended with a moved pointer and a written tape, by an O2
\* program that is not the O1 program and depends on the flush order
C13_Witness ==
    /\ FourRuns
    /\ results[1].err = "None"
    /\ results[1].pointer # 0
    /\ results[1].memory # ZeroMemory
    /\ o[2] # o[1]
    /\ order = "desc"

\* the folding as claimed: at a Loop the accumulated displacement goes into the
\* loop's `over` and restarts from 0
RECURSIVE MergeFoldReset(_, _, _, _)
MergeFoldReset(instructions, n, result, running) ==
    IF n > Len(instructions)
    THEN IF running # 0 THEN Append(result, Move(running)) ELSE result
    ELSE LET i == instructions[n] IN
         IF i.op = "Move"
         THEN MergeFoldReset(instructions, n + 1, result, running + i.over)
         ELSE IF i.op = "Loop"
         THEN MergeFoldReset(instructions, n + 1,
                  Append(result,
                      Loop(i.over + running,
                           MergeFoldReset(i.instructions, 1, <<>>, 0))),
                  0)
         ELSE MergeFoldReset(instructions, n + 1,
                  Append(result, [i EXCEPT !.offset = @ + running]), running)

\* C14: the tree optimize_o3 returns is the lowered O2 tree folded with the
\* displacement reset to 0 at every Loop: what follows a loop is not shifted by
\* the moves before it, and the trailing Move counts only the moves after the
\* last loop.
C14_ResetAtLoop ==
    (Parsed /\ o[3].tag = "Ok") =>
        o[3].ir = MergeFoldReset(O3Extend(o[2].ir), 1, <<>>, 0)

\* the loop is additive: only Add nodes, at pairwise distinct offsets, one of
\* them Add{-1, 0}
Additive(loop) ==
    /\ \A q \in 1..Len(loop.instructions) : loop.instructions[q].op = "Add"
    /\ \A q, r \in 1..Len(loop.instructions) :
          loop.instructions[q].offset = loop.instructions[r].offset => q = r
    /\ \E q \in 1..Len(loop.instructions) : IsSubOne(loop.instructions[q])

\* the cells the loop touches from the pointer p: its counter and its targets
Touched(loop, p) ==
    {p + loop.over} \cup
    {p + loop.over + loop.instructions[q].offset : q \in 1..Len(loop.instructions)}

\* both the loop and its lowering have returned
BothRuns == harness = "lower" /\ pc = "done" /\ Len(results) = 3

\* C15: when the body of a loop is only Add nodes at pairwise distinct offsets
\* with Add{-1, 0} among them, and every cell it touches is on the tape, the
\* Mul nodes, Exact{0} and Move of the O3 lowering leave the tape and the
\* pointer as the loop run to completion leaves them, for every counter value
C15_LoweringExact ==
    (/\ BothRuns
     /\ Additive(TheLoop)
     /\ \A q \in Touched(TheLoop, results[1].pointer) : InBounds(q)) =>
        /\ results[2].err = "None"
        /\ results[3].err = "None"
        /\ results[3].memory = results[2].memory
        /\ results[3].pointer = results[2].pointer

\* an additive loop away from the pointer, lowered to Mul nodes and run from the
\* top counter value: the tape is written, the pointer moved, as the loop does
C15_Witness ==
    /\ BothRuns
    /\ Additive(TheLoop)
    /\ \A q \in Touched(TheLoop, results[1].pointer) : InBounds(q)
    /\ results[1].memory[results[1].pointer + TheLoop.over] = CellMod - 1
    /\ HasOp(program, "Mul")
    /\ results[3].memory # results[1].memory
    /\ results[3].pointer # results[1].pointer
    /\ results[3].memory = results[2].memory


\* two neighbours that the fusion rules of O1 join: Adds, Moves or Prints
Unfused(instructions) ==
    \E q \in 1..(Len(instructions) - 1) :
        /\ instructions[q].op \in {"Add", "Move", "Print"}
        /\ instructions[q + 1].op = instructions[q].op

\* every loop at any depth has a body that is not a clear idiom and has no
\* unfused neighbours
RECURSIVE LoopsFused(_)
LoopsFused(instructions) ==
    \A q \in 1..Len(instructions) :
        instructions[q].op = "Loop" =>
            /\ ~IsClearBody(instructions[q].instructions)
            /\ ~Unfused(instructions[q].instructions)
            /\ LoopsFused(instructions[q].instructions)

\* C16: in the O1 tree of a bracket-balanced source no Loop has the body
\* [Add{1, 0}] or [Add{-1, 0}], and no loop body has adjacent Adds, Moves or
\* Prints left unfused, wherever the loop stands in its scope, the first
\* instruction of an enclosing loop body included.
C16_EveryLoop ==
    (Parsed /\ Balanced(bf) /\ o[1].tag = "Ok") => LoopsFused(o[1].ir)


\* every Exact at any depth carries a value of a byte
RECURSIVE ExactCanonical(_)
ExactCanonical(instructions) ==
    \A q \in 1..Len(instructions) :
        /\ instructions[q].op = "Exact" =>
              (0 <= instructions[q].x /\ instructions[q].x <= CellMod - 1)
        /\ instructions[q].op = "Loop" => ExactCanonical(instructions[q].instructions)

\* C17: every Exact{x, offset} in the O1, O2 and O3 tree of a bracket-balanced
\* source has 0 <= x <= 255, the Exact nodes that O2 makes by folding later
\* Adds into a tracked Exact behavior included.
C17_ExactCanonical ==
    (Parsed /\ Balanced(bf)) =>
        \A l \in 1..3 : o[l].tag = "Ok" => ExactCanonical(o[l].ir)

=============================================================================
